---------------------------- MODULE Spec2Model ----------------------------
(***************************************************************************)
(* Model of src/server.js: a remote-browser server.  Every WebSocket       *)
(* connection owns a frame-capture scheduler (sendFrame and its timers);   *)
(* two process-wide maps hold the engines (userBrowsers) and the sessions  *)
(* (activeSessions); a periodic sweep closes engines no session uses.      *)
(* Every await of the source is a point where the handler is suspended     *)
(* and the other handlers may run: each action below is one run of the     *)
(* event loop, from a callback's start or resumption to its next await.    *)
(***************************************************************************)
EXTENDS Naturals, Sequences, FiniteSets

(* ------------------------------ bounds -------------------------------- *)
\* Connections that ever arrive.  Connection c launches browser c and opens
\* surface (context + page) c, when it launches or opens one at all.
MaxConns == 2
\* Interaction messages handled over all connections.
MaxMsgs == 1
\* Scroll messages handled over all connections.
MaxScrolls == 3
\* The clock stops here.
MaxTime == 2040

Conns == 1 .. MaxConns
\* Spec follows the whole life of one connection, its frame scheduler
\* included; RegistrySpec follows the set-up and teardown of all of Conns.
Active == {1}
Users == {"u1", "u2"}
SessionIds == {"s1"}
Hashes == {"h1", "h2"}
MsgKinds == {"event", "nav"}
\* The commands the message handler awaits a page call for.
Commands == MsgKinds \cup {"scroll"}
\* What else a client may send: JSON whose type no case matches, and text
\* that JSON.parse rejects.
Junk == {"unknown", "malformed"}
\* Ids that hold the character the session key is joined with.
KeyUsers == {"u1", "u1_s1"}
KeySessionIds == {"s1", "s1_s1"}
UserIds == Users \cup KeyUsers
AllSessionIds == SessionIds \cup KeySessionIds
Errors == {"closed", "timeout", "other"}
\* A sendFrame call: force is options.force as the call passes it; asked is
\* the force flag of the request the call stands for (the replay of a
\* deferred request keeps the asked flag of that request).
Calls ==
    { [force |-> TRUE, asked |-> TRUE],
      [force |-> FALSE, asked |-> FALSE],
      [force |-> FALSE, asked |-> TRUE] }
\* The pending setTimeout(sendFrame) timers.  The schedulers arm two timers
\* in one run, the second after POST_EVENT_EXTRA_DELAY_MS; when the first has
\* the shorter delay it fires first: "nav" is a forced frame with its settle
\* frame still to come, "event" a plain frame with its settle frame still to
\* come.  "forced" and "plain" are single timers, "replayForced" the replay
\* of a deferred forced request (it calls sendFrame(page), as "plain" does).
\* Timers armed in different runs fire in any order: a capture may last
\* SCREENSHOT_TIMEOUT_MS, longer than every delay.
TimerKinds == {"nav", "event", "forced", "plain", "replayForced"}

INTERACTION_FRAME_DELAY_MS == 50
POST_EVENT_EXTRA_DELAY_MS == 1500
NAV_FRAME_DELAY_MS == 300
INITIAL_FRAME_DELAY_MS == 100
MIN_SCROLL_FRAME_INTERVAL_MS == 120

\* Date.now() when the server starts: any time later than
\* MIN_SCROLL_FRAME_INTERVAL_MS after the epoch.
StartTime == MIN_SCROLL_FRAME_INTERVAL_MS + (MIN_SCROLL_FRAME_INTERVAL_MS \div 2)
\* The clock's steps: half the scroll interval, the interval, the settle delay.
Steps == { MIN_SCROLL_FRAME_INTERVAL_MS \div 2, MIN_SCROLL_FRAME_INTERVAL_MS,
           POST_EVENT_EXTRA_DELAY_MS }

VARIABLES
    userBrowsers,    \* userId -> browser id, 0 when the Map has no entry
    poolOrder,       \* the Map's insertion order: a sequence of userIds
    activeSessions,  \* sessionKey -> [page, context, browser], NoSession when absent
    engine,          \* browser id -> [state, userId]: the launched browsers
    surface,         \* surface id -> [browser, context, page, url]: contexts and pages
    conn,            \* connection -> [pc, ws, userId, sessionId, sessionKey, browser, page]
    sched,           \* connection -> [lastScreenshotHash, isCapturing, pendingCapture]
    timers,          \* connection -> pending setTimeout(sendFrame) calls, by kind
    inflight,        \* connection -> page.screenshot calls awaited, by kind
    handlers,        \* connection -> message handlers awaiting their page call, by kind
    graceTimer,      \* connection -> the 30 s removal timer of its close handler is pending
    sent,            \* connection -> frames handed to ws.send
    skipped,         \* connection -> captures discarded as duplicates (line 98)
    errorLog,        \* connection -> the last sendFrame warning logged (115, 119)
    sweep,           \* the sweep callback: [pc, idx, userId, browser, failed]
    msgs,            \* messages handled so far
    owed,            \* history: a request was deferred and no capture has started since
    reclaimed,       \* history: a later connection reused the key since this one closed
    ignored,         \* history: connection -> messages the handler dropped without a page call
    now,             \* Date.now(), in ms
    lastScrollFrameTs,  \* connection -> time of the last live or settle scroll frame
    scrollSettleTimer,  \* connection -> id of the timer the handle names, 0 for null
    settleTimers,    \* connection -> the pending settle timers: records [id, due]
    timerSeq,        \* connection -> settle timers armed so far (the next id less one)
    scrolls,         \* scroll messages handled so far
    liveAt,          \* history: connection -> time a scroll last scheduled a live frame, 0 if none
    scrollAt         \* history: connection -> time of its last scheduleScrollFrames call, 0 if none

vars == << userBrowsers, poolOrder, activeSessions, engine, surface, conn, sched,
           timers, inflight, handlers, graceTimer, sent, skipped, errorLog, sweep, msgs,
           owed, reclaimed, ignored, now, lastScrollFrameTs, scrollSettleTimer,
           settleTimers, timerSeq, scrolls, liveAt, scrollAt >>

\* The clock and the scroll state of the connections.
scrollVars == << now, lastScrollFrameTs, scrollSettleTimer, settleTimers, timerSeq, scrolls,
                 liveAt, scrollAt >>

(* ----------------------------- helpers -------------------------------- *)
NoSession == [page |-> 0, context |-> 0, browser |-> 0]

\* sessionKey = `${userId}_${sessionId}`
SessionKey(userId, sessionId) == userId \o "_" \o sessionId

Keys == { SessionKey(u, s) : u \in UserIds, s \in AllSessionIds }

\* page.isClosed(): a page is closed once it, its context or its browser is.
PageIsClosed(p) == p = 0 \/ ~surface[p].page

\* activeSessions.has(key)
HasSession(k) == k \in Keys /\ activeSessions[k] # NoSession

NoTimers == [t \in TimerKinds |-> 0]
NoCalls == [t \in Calls |-> 0]
BagAdd(b, t) == [b EXCEPT ![t] = @ + 1]
BagDel(b, t) == [b EXCEPT ![t] = @ - 1]

Forced == [force |-> TRUE, asked |-> TRUE]
Plain == [force |-> FALSE, asked |-> FALSE]

\* The sendFrame call a timer makes when it fires.
CallOf(t) ==
    CASE t = "nav" -> Forced
      [] t = "forced" -> Forced
      [] t = "event" -> Plain
      [] t = "plain" -> Plain
      [] t = "replayForced" -> [force |-> FALSE, asked |-> TRUE]

\* The timers of a connection once timer t has fired: the settle timer of a
\* pair stays.
Fired(b, t) == IF t \in {"nav", "event"} THEN BagAdd(BagDel(b, t), "plain") ELSE BagDel(b, t)

\* Two timers armed in one run: the first after delay ms, the second after
\* POST_EVENT_EXTRA_DELAY_MS.
Pair(b, delay, force) ==
    IF delay < POST_EVENT_EXTRA_DELAY_MS
    THEN BagAdd(b, IF force THEN "nav" ELSE "event")
    ELSE BagAdd(BagAdd(b, "plain"), IF force THEN "forced" ELSE "plain")

\* Closing a browser closes every context and page it hosts.
CloseBrowserSurfaces(b) ==
    [s \in Conns |-> IF surface[s].browser = b
                     THEN [surface[s] EXCEPT !.context = FALSE, !.page = FALSE]
                     ELSE surface[s]]

(* ------------------------------- Init --------------------------------- *)
Init ==
    /\ userBrowsers = [u \in UserIds |-> 0]
    /\ poolOrder = << >>
    /\ activeSessions = [k \in Keys |-> NoSession]
    /\ engine = [b \in Conns |-> [state |-> "none", userId |-> ""]]
    /\ surface = [s \in Conns |-> [browser |-> 0, context |-> FALSE, page |-> FALSE, url |-> "none"]]
    /\ conn = [c \in Conns |-> [pc |-> "idle", ws |-> "none", userId |-> "", sessionId |-> "",
                                sessionKey |-> "", browser |-> 0, page |-> 0]]
    /\ sched = [c \in Conns |-> [lastScreenshotHash |-> "null", isCapturing |-> FALSE,
                                 pendingCapture |-> FALSE]]
    /\ timers = [c \in Conns |-> NoTimers]
    /\ inflight = [c \in Conns |-> NoCalls]
    /\ handlers = [c \in Conns |-> [k \in Commands |-> 0]]
    /\ graceTimer = [c \in Conns |-> FALSE]
    /\ sent = [c \in Conns |-> 0]
    /\ skipped = [c \in Conns |-> 0]
    /\ errorLog = [c \in Conns |-> "none"]
    /\ sweep = [pc |-> "idle", idx |-> 0, userId |-> "", browser |-> 0, failed |-> FALSE]
    /\ msgs = 0
    /\ owed = [c \in Conns |-> FALSE]
    /\ reclaimed = [c \in Conns |-> FALSE]
    /\ ignored = [c \in Conns |-> 0]
    /\ now = StartTime
    /\ lastScrollFrameTs = [c \in Conns |-> 0]
    /\ scrollSettleTimer = [c \in Conns |-> 0]
    /\ settleTimers = [c \in Conns |-> {}]
    /\ timerSeq = [c \in Conns |-> 0]
    /\ scrolls = 0
    /\ liveAt = [c \in Conns |-> 0]
    /\ scrollAt = [c \in Conns |-> 0]


(* --------------------- connection set-up (62-311) --------------------- *)
\* The outer catch: a critical set-up failure closes the socket if it is open.
\* No message or close handler was installed, so nothing else follows.
Critical(c) ==
    conn' = [conn EXCEPT ![c].pc = "failed",
                         ![c].ws = IF @ = "open" THEN "closed" ELSE @]

\* setTimeout(sendFrame force, 100) and setTimeout(sendFrame, POST_EVENT_EXTRA_DELAY_MS)
InitialFrames(c) == [timers EXCEPT ![c] = Pair(@, INITIAL_FRAME_DELAY_MS, TRUE)]

\* Mutant of Reusable: a registered session is never reused.
ReusableNever(existingSession) == FALSE

\* The reuse test of the connection handler.
Reusable(existingSession) ==
    /\ existingSession # NoSession
    /\ existingSession.page # 0
    /\ ~PageIsClosed(existingSession.page)

\* A connection arrives: the handler runs to its return (reuse) or to its
\* first await (chromium.launch, or browser.newContext when the user has an engine).
Connect(c, u, s) ==
    LET k == SessionKey(u, s)
        existingSession == activeSessions[k]
    IN  /\ conn[c].pc = "idle"
        /\ \A d \in 1 .. (c - 1) : conn[d].pc # "idle"
        /\ IF Reusable(existingSession)
           THEN /\ conn' = [conn EXCEPT ![c] = [pc |-> "ready", ws |-> "open", userId |-> u,
                                                sessionId |-> s, sessionKey |-> k,
                                                browser |-> 0,
                                                page |-> existingSession.page]]
                /\ timers' = InitialFrames(c)
                /\ reclaimed' = [d \in Conns |->
                                   reclaimed[d] \/ (graceTimer[d] /\ conn[d].sessionKey = k)]
           ELSE /\ conn' = [conn EXCEPT ![c] = [pc |-> IF userBrowsers[u] = 0 THEN "launch"
                                                       ELSE "newContext",
                                                ws |-> "open", userId |-> u, sessionId |-> s,
                                                sessionKey |-> k,
                                                browser |-> userBrowsers[u], page |-> 0]]
                /\ UNCHANGED << timers, reclaimed >>
        /\ sched' = [sched EXCEPT ![c].lastScreenshotHash = "null"]
        /\ UNCHANGED << userBrowsers, poolOrder, activeSessions, engine, surface, inflight,
                        handlers, graceTimer, sent, sweep, msgs, owed, skipped,
                    errorLog, ignored, scrollVars >>

\* chromium.launch resolves: the browser is stored under the userId, whatever
\* the Map holds by now.
LaunchDone(c) ==
    LET u == conn[c].userId
    IN  /\ conn[c].pc = "launch"
        /\ engine' = [engine EXCEPT ![c] = [state |-> "open", userId |-> u]]
        /\ userBrowsers' = [userBrowsers EXCEPT ![u] = c]
        /\ poolOrder' = IF userBrowsers[u] = 0 THEN Append(poolOrder, u) ELSE poolOrder
        /\ conn' = [conn EXCEPT ![c].pc = "newContext", ![c].browser = c]
        /\ UNCHANGED << activeSessions, surface, sched, timers, inflight, handlers,
                        graceTimer, sent, sweep, msgs, owed, reclaimed, skipped,
                    errorLog, ignored, scrollVars >>

\* chromium.launch rejects.
LaunchFail(c) ==
    /\ conn[c].pc = "launch"
    /\ Critical(c)
    /\ UNCHANGED << userBrowsers, poolOrder, activeSessions, engine, surface, sched, timers,
                    inflight, handlers, graceTimer, sent, sweep, msgs, owed, reclaimed, skipped,
                    errorLog, ignored, scrollVars >>

\* Once browser.close() has been called on a browser, the calls already
\* awaited may still resolve until the browser exits; calls issued on it
\* from then on reject.
EngineOpen(b) == b # 0 /\ engine[b].state = "open"

\* browser.newContext resolves and context.newPage, page.setViewportSize and
\* page.goto are issued in turn, or one of them rejects because the browser
\* is closing or closed.
NewContextDone(c) ==
    LET b == conn[c].browser
    IN  /\ conn[c].pc = "newContext"
        /\ IF EngineOpen(b)
           THEN /\ surface' = [surface EXCEPT ![c] = [browser |-> b, context |-> TRUE,
                                                      page |-> TRUE, url |-> "none"]]
                /\ conn' = [conn EXCEPT ![c].pc = "goto", ![c].page = c]
           ELSE /\ Critical(c)
                /\ UNCHANGED surface
        /\ UNCHANGED << userBrowsers, poolOrder, activeSessions, engine, sched, timers,
                        inflight, handlers, graceTimer, sent, sweep, msgs, owed, reclaimed,
                        skipped, errorLog, ignored, scrollVars >>

\* page.goto(targetUrl) resolves (ok) and page.title() is issued, or it
\* rejects and the fallback page.goto('about:blank') is issued; when the call
\* issued next rejects at once (closed page, closing browser), every later
\* one does and the outer catch runs.
GotoDone(c, ok) ==
    /\ conn[c].pc = "goto"
    /\ IF PageIsClosed(c) \/ ~EngineOpen(conn[c].browser)
       THEN /\ Critical(c)
            /\ UNCHANGED surface
       ELSE /\ conn' = [conn EXCEPT ![c].pc = IF ok THEN "title" ELSE "blank"]
            /\ surface' = [surface EXCEPT ![c].url = IF ok THEN "target" ELSE @]
    /\ UNCHANGED << userBrowsers, poolOrder, activeSessions, engine, sched, timers, inflight,
                    handlers, graceTimer, sent, sweep, msgs, owed, reclaimed, skipped,
                    errorLog, ignored, scrollVars >>

\* activeSessions.set(sessionKey, {page, context, browser}), the two initial
\* frames and setupInteractionHandler.  lastScrollFrameTs and
\* scrollSettleTimer are reset too: no scroll was handled yet, so they hold
\* 0 and null already.
Register(c) ==
    /\ activeSessions' = [activeSessions EXCEPT ![conn[c].sessionKey] =
                            [page |-> c, context |-> c, browser |-> conn[c].browser]]
    /\ sched' = [sched EXCEPT ![c].lastScreenshotHash = "null"]
    /\ timers' = InitialFrames(c)
    /\ conn' = [conn EXCEPT ![c].pc = "ready"]

\* page.title() resolves (ok) and the session is registered, or it rejects
\* inside the try and the fallback page.goto('about:blank') is issued; on a
\* page closed meanwhile it rejects, and so does the fallback goto.
TitleDone(c, ok) ==
    /\ conn[c].pc = "title"
    /\ IF PageIsClosed(c)
       THEN /\ Critical(c)
            /\ UNCHANGED << activeSessions, sched, timers >>
       ELSE IF ok
            THEN Register(c)
            ELSE /\ conn' = [conn EXCEPT ![c].pc = "blank"]
                 /\ UNCHANGED << activeSessions, sched, timers >>
    /\ UNCHANGED << userBrowsers, poolOrder, engine, surface, inflight, handlers, graceTimer,
                    sent, sweep, msgs, owed, reclaimed, skipped, errorLog, ignored, scrollVars >>

\* page.goto('about:blank') resolves and the session is registered, or it
\* rejects on a closed page.
BlankDone(c) ==
    /\ conn[c].pc = "blank"
    /\ IF PageIsClosed(c)
       THEN /\ Critical(c)
            /\ UNCHANGED << activeSessions, surface, sched, timers >>
       ELSE /\ Register(c)
            /\ surface' = [surface EXCEPT ![c].url = "blank"]
    /\ UNCHANGED << userBrowsers, poolOrder, engine, inflight, handlers, graceTimer, sent,
                    sweep, msgs, owed, reclaimed, skipped, errorLog, ignored, scrollVars >>

(* ------------------ close handler and grace timer (212-229) ----------- *)
\* Mutant of ClearTimeout: the pending timer is left armed.
ClearTimeoutNever(pending, handle) == pending

\* clearTimeout(handle): the timer of that id is disarmed if it is pending.
ClearTimeout(pending, handle) == { tm \in pending : tm.id # handle }

\* The client goes away.  The close handler exists only once
\* setupInteractionHandler has run; it arms the 30 s removal timer.
WsClose(c) ==
    /\ conn[c].ws = "open"
    /\ conn' = [conn EXCEPT ![c].ws = "closed"]
    /\ graceTimer' = [graceTimer EXCEPT ![c] = (conn[c].pc = "ready")]
    /\ reclaimed' = [reclaimed EXCEPT ![c] = FALSE]
    /\ IF conn[c].pc = "ready" /\ scrollSettleTimer[c] # 0
       THEN /\ settleTimers' = [settleTimers EXCEPT ![c] = ClearTimeout(@, scrollSettleTimer[c])]
            /\ scrollSettleTimer' = [scrollSettleTimer EXCEPT ![c] = 0]
       ELSE UNCHANGED << settleTimers, scrollSettleTimer >>
    /\ UNCHANGED << userBrowsers, poolOrder, activeSessions, engine, surface, sched, timers,
                    inflight, handlers, sent, sweep, msgs, owed, skipped,
                    errorLog, ignored, now, lastScrollFrameTs, timerSeq, scrolls, liveAt,
                    scrollAt >>

\* The removal timer fires: whatever session the key holds now is deleted and
\* its context closed.
GraceFire(c) ==
    LET sKey == conn[c].sessionKey
        session == activeSessions[sKey]
    IN  /\ graceTimer[c]
        /\ graceTimer' = [graceTimer EXCEPT ![c] = FALSE]
        /\ reclaimed' = [reclaimed EXCEPT ![c] = FALSE]
        /\ IF HasSession(sKey)
           THEN /\ activeSessions' = [activeSessions EXCEPT ![sKey] = NoSession]
                /\ surface' = IF session.context # 0
                              THEN [surface EXCEPT ![session.context].context = FALSE,
                                                   ![session.context].page = FALSE]
                              ELSE surface
           ELSE UNCHANGED << activeSessions, surface >>
        /\ UNCHANGED << userBrowsers, poolOrder, engine, conn, sched, timers, inflight,
                        handlers, sent, sweep, msgs, owed, skipped,
                    errorLog, ignored, scrollVars >>


(* ------------------------ sendFrame (78-130) -------------------------- *)
\* The finally block: isCapturing is cleared on every exit of the try,
\* the early returns included; a pending request is replayed by a timer that
\* calls sendFrame(page) with the default options.
Replay(call) == IF call.asked THEN "replayForced" ELSE "plain"

\* Mutant of SendFrame: a deferred request arms no replay timer.
SendFrameNoReplay(c, t) ==
    /\ timers[c][t] > 0
    /\ IF PageIsClosed(conn[c].page)
       THEN /\ sched' = [sched EXCEPT ![c].isCapturing = FALSE]
            /\ timers' = [timers EXCEPT ![c] = Fired(@, t)]
            /\ UNCHANGED << inflight, owed >>
       ELSE IF sched[c].isCapturing
            THEN /\ sched' = [sched EXCEPT ![c].isCapturing = FALSE,
                                           ![c].pendingCapture = FALSE]
                 /\ timers' = [timers EXCEPT ![c] = Fired(@, t)]
                 /\ owed' = [owed EXCEPT ![c] = TRUE]
                 /\ UNCHANGED inflight
            ELSE /\ sched' = [sched EXCEPT ![c].isCapturing = TRUE]
                 /\ timers' = [timers EXCEPT ![c] = Fired(@, t)]
                 /\ inflight' = [inflight EXCEPT ![c] = BagAdd(@, CallOf(t))]
                 /\ owed' = [owed EXCEPT ![c] = FALSE]
    /\ UNCHANGED << userBrowsers, poolOrder, activeSessions, engine, surface, conn, handlers,
                    graceTimer, sent, sweep, msgs, reclaimed, skipped, errorLog, ignored, scrollVars >>

\* Timer t fires and calls sendFrame(page, {force}): the synchronous part,
\* to the await of page.screenshot or to the return, and then the finally
\* block.
SendFrame(c, t) ==
    /\ timers[c][t] > 0
    /\ IF PageIsClosed(conn[c].page)
       THEN \* line 80: return; finally clears isCapturing
            /\ sched' = [sched EXCEPT ![c].isCapturing = FALSE]
            /\ timers' = [timers EXCEPT ![c] = Fired(@, t)]
            /\ UNCHANGED << inflight, owed >>
       ELSE IF sched[c].isCapturing
            THEN \* lines 82-85: pendingCapture = true; return; finally clears
                 \* isCapturing and pendingCapture and arms the replay timer
                 /\ sched' = [sched EXCEPT ![c].isCapturing = FALSE,
                                           ![c].pendingCapture = FALSE]
                 /\ timers' = [timers EXCEPT ![c] = BagAdd(Fired(@, t), Replay(CallOf(t)))]
                 /\ owed' = [owed EXCEPT ![c] = TRUE]
                 /\ UNCHANGED inflight
            ELSE \* lines 86-88: isCapturing = true; await page.screenshot
                 /\ sched' = [sched EXCEPT ![c].isCapturing = TRUE]
                 /\ timers' = [timers EXCEPT ![c] = Fired(@, t)]
                 /\ inflight' = [inflight EXCEPT ![c] = BagAdd(@, CallOf(t))]
                 /\ owed' = [owed EXCEPT ![c] = FALSE]
    /\ UNCHANGED << userBrowsers, poolOrder, activeSessions, engine, surface, conn, handlers,
                    graceTimer, sent, sweep, msgs, reclaimed, skipped,
                    errorLog, ignored, scrollVars >>

\* The finally block after the await: pendingCapture is false whenever a
\* handler is suspended, so only isCapturing changes.
Finally(c) == [sched EXCEPT ![c].isCapturing = FALSE]

\* Mutant of Duplicate: the dedup test never holds.
DuplicateNever(force, hash, last) == FALSE

\* The dedup test: !options.force && hash === lastScreenshotHash
Duplicate(force, hash, last) == ~force /\ hash = last

\* page.screenshot resolves with bytes whose md5 is hash.
CaptureOk(c, t, hash) ==
    /\ inflight[c][t] > 0
    /\ ~PageIsClosed(conn[c].page)
    /\ inflight' = [inflight EXCEPT ![c] = BagDel(@, t)]
    /\ IF Duplicate(t.force, hash, sched[c].lastScreenshotHash)
       THEN /\ sched' = Finally(c)
            /\ skipped' = [skipped EXCEPT ![c] = @ + 1]
            /\ UNCHANGED sent
       ELSE /\ sched' = [Finally(c) EXCEPT ![c].lastScreenshotHash = hash]
            /\ sent' = [sent EXCEPT ![c] = IF conn[c].ws = "open" THEN @ + 1 ELSE @]
            /\ UNCHANGED skipped
    /\ UNCHANGED << userBrowsers, poolOrder, activeSessions, engine, surface, conn, timers,
                    handlers, graceTimer, sweep, msgs, owed, reclaimed, errorLog, ignored, scrollVars >>

\* Mutant of IsFatal: a timeout counts as a closed target.
IsFatalOrTimeout(error) == error \in {"closed", "timeout"}

\* The catch block's test: the message says the target is closed.
IsFatal(error) == error = "closed"

\* page.screenshot rejects: with a target-closed error when the page has
\* closed, with a timeout or another error otherwise.  A fatal error logs
\* nothing; a timeout is logged unless one was logged in the last 3 s; any
\* other error is logged.
CaptureFail(c, t, error) ==
    /\ inflight[c][t] > 0
    /\ (error = "closed") = PageIsClosed(conn[c].page)
    /\ inflight' = [inflight EXCEPT ![c] = BagDel(@, t)]
    /\ sched' = Finally(c)
    /\ activeSessions' = IF IsFatal(error) /\ HasSession(conn[c].sessionKey)
                         THEN [activeSessions EXCEPT ![conn[c].sessionKey] = NoSession]
                         ELSE activeSessions
    /\ \/ errorLog' = [errorLog EXCEPT ![c] = IF IsFatal(error) THEN @ ELSE error]
       \/ /\ ~IsFatal(error) /\ error = "timeout" /\ errorLog[c] = "timeout"
          /\ UNCHANGED errorLog
    /\ UNCHANGED << userBrowsers, poolOrder, engine, surface, conn, timers, handlers,
                    graceTimer, sent, sweep, msgs, owed, reclaimed, skipped, ignored,
                    scrollVars >>

(* ---------------------- message handler (160-210) --------------------- *)
\* Mutant of Dispatched: the closed-page test is dropped.
DispatchedOnClosedPage(c, kind) == kind \in Commands

\* The handler goes on to a page call: the page is open (line 162), the text
\* parses (line 165) and a case of the switch matches its type.
Dispatched(c, kind) == ~PageIsClosed(conn[c].page) /\ kind \in Commands

\* A message arrives on the open socket: a click or key (event), a reload,
\* back or forward (nav), a scroll, or junk.  The handler awaits the page call
\* of the command, or returns at once: on a closed page, when JSON.parse
\* throws (the catch logs) or when no case matches.
Message(c, kind) ==
    /\ conn[c].pc = "ready"
    /\ conn[c].ws = "open"
    /\ IF kind = "scroll" THEN scrolls < MaxScrolls ELSE msgs < MaxMsgs
    /\ IF PageIsClosed(conn[c].page) THEN TRUE
       ELSE EngineOpen(surface[conn[c].page].browser)
    /\ msgs' = IF kind = "scroll" THEN msgs ELSE msgs + 1
    /\ scrolls' = IF kind = "scroll" THEN scrolls + 1 ELSE scrolls
    /\ IF Dispatched(c, kind)
       THEN /\ handlers' = [handlers EXCEPT ![c][kind] = @ + 1]
            /\ UNCHANGED ignored
       ELSE /\ ignored' = [ignored EXCEPT ![c] = @ + 1]
            /\ UNCHANGED handlers
    /\ UNCHANGED << userBrowsers, poolOrder, activeSessions, engine, surface, conn, sched,
                    timers, inflight, graceTimer, sent, sweep, owed, reclaimed, skipped,
                    errorLog, now, lastScrollFrameTs, scrollSettleTimer, settleTimers,
                    timerSeq, liveAt, scrollAt >>

\* Mutant of Schedule: every command schedules the frames of a navigation.
ScheduleNavAlways(c, kind) == [timers EXCEPT ![c] = Pair(@, NAV_FRAME_DELAY_MS, TRUE)]

\* scheduleEventFrames (133-136) and scheduleNavFrames(page, true) (138-141)
Schedule(c, kind) ==
    [timers EXCEPT ![c] = IF kind = "nav" THEN Pair(@, NAV_FRAME_DELAY_MS, TRUE)
                                          ELSE Pair(@, INTERACTION_FRAME_DELAY_MS, FALSE)]

\* The page call resolves and the frames are scheduled, or it rejects (always
\* so on a closed page) and the catch only logs.
HandlerDone(c, kind, ok) ==
    /\ handlers[c][kind] > 0
    /\ handlers' = [handlers EXCEPT ![c][kind] = @ - 1]
    /\ timers' = IF ok /\ ~PageIsClosed(conn[c].page) THEN Schedule(c, kind) ELSE timers
    /\ UNCHANGED << userBrowsers, poolOrder, activeSessions, engine, surface, conn, sched,
                    inflight, graceTimer, sent, sweep, msgs, owed, reclaimed, skipped,
                    errorLog, ignored, scrollVars >>

(* ----------------- scroll frames and the clock (143-158) -------------- *)
\* Mutant of LiveDue: every scroll schedules a live frame.
LiveDueAlways(t, last) == TRUE

\* now - lastScrollFrameTs > MIN_SCROLL_FRAME_INTERVAL_MS
LiveDue(t, last) == t - last > MIN_SCROLL_FRAME_INTERVAL_MS

\* page.mouse.wheel resolves and scheduleScrollFrames runs, or it rejects
\* (always so on a closed page) and the catch only logs.
ScrollDone(c, ok) ==
    /\ handlers[c]["scroll"] > 0
    /\ handlers' = [handlers EXCEPT ![c]["scroll"] = @ - 1]
    /\ IF ok /\ ~PageIsClosed(conn[c].page)
       THEN LET live == LiveDue(now, lastScrollFrameTs[c])
                id == timerSeq[c] + 1
            IN  /\ lastScrollFrameTs' = [lastScrollFrameTs EXCEPT ![c] = IF live THEN now ELSE @]
                /\ timers' = [timers EXCEPT ![c] = IF live THEN BagAdd(@, "plain") ELSE @]
                /\ liveAt' = [liveAt EXCEPT ![c] = IF live THEN now ELSE @]
                /\ settleTimers' = [settleTimers EXCEPT ![c] =
                                       ClearTimeout(@, scrollSettleTimer[c])
                                         \cup {[id |-> id, due |-> now + POST_EVENT_EXTRA_DELAY_MS]}]
                /\ scrollSettleTimer' = [scrollSettleTimer EXCEPT ![c] = id]
                /\ timerSeq' = [timerSeq EXCEPT ![c] = id]
                /\ scrollAt' = [scrollAt EXCEPT ![c] = now]
       ELSE UNCHANGED << lastScrollFrameTs, timers, liveAt, settleTimers, scrollSettleTimer,
                         timerSeq, scrollAt >>
    /\ UNCHANGED << userBrowsers, poolOrder, activeSessions, engine, surface, conn, sched,
                    inflight, graceTimer, sent, sweep, msgs, owed, reclaimed, skipped,
                    errorLog, ignored, now, scrolls >>

\* A settle timer fires, no earlier than it is due: lastScrollFrameTs =
\* Date.now() and sendFrame(page) runs, as in SendFrame, to its await or to
\* its return.  The handle keeps naming the timer that fired.
ScrollSettleFire(c, tm) ==
    /\ tm \in settleTimers[c]
    /\ now >= tm.due
    /\ settleTimers' = [settleTimers EXCEPT ![c] = @ \ {tm}]
    /\ lastScrollFrameTs' = [lastScrollFrameTs EXCEPT ![c] = now]
    /\ IF PageIsClosed(conn[c].page)
       THEN /\ sched' = [sched EXCEPT ![c].isCapturing = FALSE]
            /\ UNCHANGED << timers, inflight, owed >>
       ELSE IF sched[c].isCapturing
            THEN /\ sched' = [sched EXCEPT ![c].isCapturing = FALSE,
                                           ![c].pendingCapture = FALSE]
                 /\ timers' = [timers EXCEPT ![c] = BagAdd(@, Replay(Plain))]
                 /\ owed' = [owed EXCEPT ![c] = TRUE]
                 /\ UNCHANGED inflight
            ELSE /\ sched' = [sched EXCEPT ![c].isCapturing = TRUE]
                 /\ inflight' = [inflight EXCEPT ![c] = BagAdd(@, Plain)]
                 /\ owed' = [owed EXCEPT ![c] = FALSE]
                 /\ UNCHANGED timers
    /\ UNCHANGED << userBrowsers, poolOrder, activeSessions, engine, surface, conn, handlers,
                    graceTimer, sent, sweep, msgs, reclaimed, skipped, errorLog, ignored,
                    now, scrollSettleTimer, timerSeq, scrolls, liveAt, scrollAt >>

\* Time passes.  Only the scroll code reads the clock: the time that passed
\* before the first message handler was installed is part of StartTime.
Tick(d) ==
    /\ now + d <= MaxTime
    /\ \E c \in Conns : conn[c].pc = "ready"
    /\ now' = now + d
    /\ UNCHANGED << userBrowsers, poolOrder, activeSessions, engine, surface, conn, sched,
                    timers, inflight, handlers, graceTimer, sent, skipped, errorLog, sweep,
                    msgs, owed, reclaimed, ignored, lastScrollFrameTs, scrollSettleTimer,
                    settleTimers, timerSeq, scrolls, liveAt, scrollAt >>

(* --------------------------- sweep (314-329) -------------------------- *)
\* [...activeSessions.values()].some(s => s.browser === browser)
StillUsed(sessions, browser) ==
    \E k \in Keys : sessions[k] # NoSession /\ sessions[k].browser = browser

\* Mutant of FirstUnused: the loop goes on from the entry after position i.
FirstUnusedAfter(pool, order, i) ==
    LET unused == { j \in (i + 1) .. Len(order) : ~StillUsed(activeSessions, pool[order[j]]) }
    IN  IF unused = {} THEN 0 ELSE CHOOSE j \in unused : \A m \in unused : j <= m

\* The for-of loop runs on from position i of the Map to the first entry
\* whose browser no session uses (0 when it reaches the end).
FirstUnused(pool, order, i) ==
    LET unused == { j \in i .. Len(order) : ~StillUsed(activeSessions, pool[order[j]]) }
    IN  IF unused = {} THEN 0 ELSE CHOOSE j \in unused : \A m \in unused : j <= m

\* The loop stops at entry j and awaits browser.close(), or ends.  eng is the
\* state of the browsers when the loop runs on; failed records that a close
\* of this pass was rejected.
SweepTo(pool, order, eng, j, failed) ==
    IF j = 0
    THEN /\ sweep' = [pc |-> "idle", idx |-> 0, userId |-> "", browser |-> 0, failed |-> FALSE]
         /\ engine' = eng
    ELSE /\ sweep' = [pc |-> "closing", idx |-> j, userId |-> order[j],
                      browser |-> pool[order[j]], failed |-> failed]
         /\ engine' = [eng EXCEPT ![pool[order[j]]].state =
                          IF @ = "open" THEN "closing" ELSE @]

\* The interval fires (one pass at a time).
SweepStart ==
    /\ sweep.pc = "idle"
    /\ SweepTo(userBrowsers, poolOrder, engine, FirstUnused(userBrowsers, poolOrder, 1), FALSE)
    /\ UNCHANGED << userBrowsers, poolOrder, activeSessions, surface, conn, sched, timers,
                    inflight, handlers, graceTimer, sent, msgs, owed, reclaimed, skipped,
                    errorLog, ignored, scrollVars >>

\* The browser a close was asked of exits; its contexts and pages close.
BrowserExit(b) ==
    /\ engine[b].state = "closing"
    /\ engine' = [engine EXCEPT ![b].state = "closed"]
    /\ surface' = CloseBrowserSurfaces(b)
    /\ UNCHANGED << userBrowsers, poolOrder, activeSessions, conn, sched, timers, inflight,
                    handlers, graceTimer, sent, sweep, msgs, owed, reclaimed, skipped,
                    errorLog, ignored, scrollVars >>

Remove(order, u) == SelectSeq(order, LAMBDA x : x # u)

\* browser.close() resolves: userBrowsers.delete(userId), and the loop goes on.
SweepCloseDone ==
    LET pool == [userBrowsers EXCEPT ![sweep.userId] = 0]
        order == Remove(poolOrder, sweep.userId)
    IN  /\ sweep.pc = "closing"
        /\ engine[sweep.browser].state = "closed"
        /\ userBrowsers' = pool
        /\ poolOrder' = order
        /\ SweepTo(pool, order, engine, FirstUnused(pool, order, sweep.idx), sweep.failed)
        /\ UNCHANGED << activeSessions, surface, conn, sched, timers, inflight, handlers,
                        graceTimer, sent, msgs, owed, reclaimed, skipped,
                    errorLog, ignored, scrollVars >>

\* browser.close() rejects: the catch logs, userBrowsers.delete(userId) runs
\* all the same and the loop goes on.  The browser has exited or, when alive,
\* still runs and serves calls.
SweepCloseFail(alive) ==
    LET pool == [userBrowsers EXCEPT ![sweep.userId] = 0]
        order == Remove(poolOrder, sweep.userId)
        b == sweep.browser
        eng == [engine EXCEPT ![b].state = IF alive THEN "open" ELSE "closed"]
    IN  /\ sweep.pc = "closing"
        /\ alive => engine[b].state = "closing"
        /\ userBrowsers' = pool
        /\ poolOrder' = order
        /\ surface' = IF alive THEN surface ELSE CloseBrowserSurfaces(b)
        /\ SweepTo(pool, order, eng, FirstUnused(pool, order, sweep.idx), TRUE)
        /\ UNCHANGED << activeSessions, conn, sched, timers, inflight, handlers,
                        graceTimer, sent, msgs, owed, reclaimed, skipped, errorLog, ignored,
                        scrollVars >>

(* ---------------------------- environment ----------------------------- *)
\* A page closes on its own (its window is closed, headless is false): the
\* context stays open.
PageClosed(p) ==
    /\ surface[p].page
    /\ surface' = [surface EXCEPT ![p].page = FALSE]
    /\ UNCHANGED << userBrowsers, poolOrder, activeSessions, engine, conn, sched, timers,
                    inflight, handlers, graceTimer, sent, sweep, msgs, owed, reclaimed, skipped,
                    errorLog, ignored, scrollVars >>

(* ------------------------------- Next --------------------------------- *)
\* Connections are numbered in their order of arrival, and the first one's
\* user is called u1.
UsersOf(c) == IF c = 1 THEN {"u1"} ELSE Users

\* The whole server, for the connections of Active.
Next ==
    \/ \E c \in Active : \E u \in UsersOf(c), s \in SessionIds : Connect(c, u, s)
    \/ \E c \in Active : LaunchDone(c)
    \/ \E c \in Active : LaunchFail(c)
    \/ \E c \in Active : NewContextDone(c)
    \/ \E c \in Active, ok \in BOOLEAN : GotoDone(c, ok)
    \/ \E c \in Active, ok \in BOOLEAN : TitleDone(c, ok)
    \/ \E c \in Active : BlankDone(c)
    \/ \E c \in Active : WsClose(c)
    \/ \E c \in Active : GraceFire(c)
    \/ \E c \in Active, t \in TimerKinds : SendFrame(c, t)
    \/ \E c \in Active, t \in Calls, h \in Hashes : CaptureOk(c, t, h)
    \/ \E c \in Active, t \in Calls, e \in Errors : CaptureFail(c, t, e)
    \/ \E c \in Active, k \in MsgKinds \cup Junk : Message(c, k)
    \/ \E c \in Active, k \in MsgKinds, ok \in BOOLEAN : HandlerDone(c, k, ok)
    \/ SweepStart
    \/ \E b \in Conns : BrowserExit(b)
    \/ SweepCloseDone
    \/ \E alive \in BOOLEAN : SweepCloseFail(alive)
    \/ \E p \in Conns : PageClosed(p)

Spec == Init /\ [][Next]_vars

\* Timers fire and page.screenshot settles (SCREENSHOT_TIMEOUT_MS bounds it).
FairSpec ==
    /\ Spec
    /\ \A c \in Active : WF_vars(\E t \in TimerKinds : SendFrame(c, t))
    /\ \A c \in Active :
         WF_vars(\/ \E t \in Calls, h \in Hashes : CaptureOk(c, t, h)
                 \/ \E t \in Calls, e \in Errors : CaptureFail(c, t, e))

\* One connection under scroll messages, with the clock, while the timers
\* of the sendFrame(page) calls are pending: the settle timers fire and their
\* captures resolve.
ScrollNext ==
    \/ \E c \in Active : \E u \in UsersOf(c), s \in SessionIds : Connect(c, u, s)
    \/ \E c \in Active : LaunchDone(c)
    \/ \E c \in Active : NewContextDone(c)
    \/ \E c \in Active, ok \in BOOLEAN : GotoDone(c, ok)
    \/ \E c \in Active, ok \in BOOLEAN : TitleDone(c, ok)
    \/ \E c \in Active : BlankDone(c)
    \/ \E c \in Active : WsClose(c)
    \/ \E c \in Active : Message(c, "scroll")
    \/ \E c \in Active, ok \in BOOLEAN : ScrollDone(c, ok)
    \/ \E c \in Active : \E tm \in settleTimers[c] : ScrollSettleFire(c, tm)
    \/ \E c \in Active, t \in Calls, h \in Hashes : CaptureOk(c, t, h)
    \/ \E d \in Steps : Tick(d)

ScrollSpec == Init /\ [][ScrollNext]_vars

\* The registries under every connection: set-up, close, removal and sweep,
\* while no frame timer has fired yet.
RegistryNext ==
    \/ \E c \in Conns : \E u \in UsersOf(c), s \in SessionIds : Connect(c, u, s)
    \/ \E c \in Conns : LaunchDone(c)
    \/ \E c \in Conns : LaunchFail(c)
    \/ \E c \in Conns : NewContextDone(c)
    \/ \E c \in Conns, ok \in BOOLEAN : GotoDone(c, ok)
    \/ \E c \in Conns, ok \in BOOLEAN : TitleDone(c, ok)
    \/ \E c \in Conns : BlankDone(c)
    \/ \E c \in Conns : WsClose(c)
    \/ \E c \in Conns : GraceFire(c)
    \/ SweepStart
    \/ \E b \in Conns : BrowserExit(b)
    \/ SweepCloseDone
    \/ \E alive \in BOOLEAN : SweepCloseFail(alive)
    \/ \E p \in Conns : PageClosed(p)

RegistrySpec == Init /\ [][RegistryNext]_vars

\* Connections whose ids hold the character the key is joined with: set-up,
\* close and removal.
KeyNext ==
    \/ \E c \in Conns, u \in KeyUsers, s \in KeySessionIds : Connect(c, u, s)
    \/ \E c \in Conns : LaunchDone(c)
    \/ \E c \in Conns : NewContextDone(c)
    \/ \E c \in Conns, ok \in BOOLEAN : GotoDone(c, ok)
    \/ \E c \in Conns, ok \in BOOLEAN : TitleDone(c, ok)
    \/ \E c \in Conns : BlankDone(c)
    \/ \E c \in Conns : WsClose(c)
    \/ \E c \in Conns : GraceFire(c)

KeySpec == Init /\ [][KeyNext]_vars

\* The registries and the commands of every connection, while no frame
\* timer has fired yet.
PolicyNext ==
    \/ RegistryNext
    \/ \E c \in Conns, k \in MsgKinds : Message(c, k)
    \/ \E c \in Conns, k \in MsgKinds, ok \in BOOLEAN : HandlerDone(c, k, ok)

PolicySpec == Init /\ [][PolicyNext]_vars

(* ------------------------------ claims -------------------------------- *)
InFlight(c) == inflight[c][Forced] + inflight[c][Plain]
               + inflight[c][[force |-> FALSE, asked |-> TRUE]]

\* C1: for every page, at most one page.screenshot is in progress at a
\* time, over all the sendFrame calls of all the connections bound to it.
C1_SingleFlight ==
    /\ \A c \in Conns : InFlight(c) <= 1
    /\ \A c, d \in Conns :
         (c # d /\ conn[c].page = conn[d].page /\ conn[c].page # 0)
           => ~(InFlight(c) > 0 /\ InFlight(d) > 0)

\* Connection d is attached to the session registered under key k.
UsedBy(d, k) ==
    /\ conn[d].pc = "ready"
    /\ conn[d].ws = "open"
    /\ conn[d].sessionKey = k
    /\ HasSession(k)
    /\ conn[d].page = activeSessions[k].page

\* C2: when the removal timer of a closed connection fires after a later
\* connection reused the session of its key, and that connection still uses
\* it, the timer changes nothing: the session stays registered and its
\* context stays open.
C2_ReconnectWins ==
    [][\A c \in Conns :
         (/\ GraceFire(c)
          /\ reclaimed[c]
          /\ \E d \in Conns \ {c} : UsedBy(d, conn[c].sessionKey))
         => UNCHANGED << activeSessions, surface >>]_vars

\* C3: no browser a registered session references is closed, and each is
\* the pool's entry of the user it was launched for.
C3_EngineKept ==
    \A k \in Keys :
      HasSession(k) =>
        LET b == activeSessions[k].browser
        IN  /\ engine[b].state # "closed"
            /\ userBrowsers[engine[b].userId] = b

\* C4: a successful capture with force=false whose hash equals the stored
\* hash sends nothing and leaves the stored hash as it is; every successful
\* capture leaves its hash stored, and nothing but a successful capture
\* changes the stored hash of a connection once it is set up: of consecutive
\* successful captures with the same hash, a non-forced one after the first
\* is never delivered.
C4_Dedup ==
    [][\A c \in Conns :
         /\ \A t \in Calls, h \in Hashes :
              CaptureOk(c, t, h) =>
                /\ sched'[c].lastScreenshotHash = h
                /\ (~t.force /\ h = sched[c].lastScreenshotHash)
                     => (sent'[c] = sent[c] /\ skipped'[c] = skipped[c] + 1)
         /\ (conn[c].pc = "ready"
             /\ sched'[c].lastScreenshotHash # sched[c].lastScreenshotHash)
              => \E t \in Calls, h \in Hashes : CaptureOk(c, t, h)]_vars

\* C4 witness: a capture was discarded as a duplicate after a frame was sent.
C4_Witness == \E c \in Conns : skipped[c] > 0 /\ sent[c] > 0

\* C5: a successful capture that stands for a force=true request, on an open
\* connection, is delivered whatever hash is stored.
C5_ForcedDelivered ==
    [][\A c \in Conns : \A t \in Calls, h \in Hashes :
         (CaptureOk(c, t, h) /\ t.asked /\ conn[c].ws = "open")
           => sent'[c] = sent[c] + 1]_vars

\* C6: a sendFrame request deferred because a capture was in flight is
\* followed by the start of a capture, unless the page closes.
C6_Deferred ==
    \A c \in Conns : owed[c] ~> (~owed[c] \/ PageIsClosed(conn[c].page))

\* C6 witness: the replay of a deferred forced request is capturing.
C6_Witness == \E c \in Conns : inflight[c][[force |-> FALSE, asked |-> TRUE]] > 0 /\ ~owed[c]

\* C7 as stated: a connection whose key is registered with an open page is
\* bound to that page and creates, navigates and registers nothing; any
\* other connection goes on to create, and the session it registers holds a
\* page no session held before, navigated to the target url.
C7_ReuseOrFreshTarget ==
    [][\A c \in Conns :
         /\ \A u \in Users, s \in SessionIds :
              Connect(c, u, s) =>
                LET k == SessionKey(u, s)
                IN  IF HasSession(k) /\ surface[activeSessions[k].page].page
                    THEN /\ conn'[c].pc = "ready"
                         /\ conn'[c].page = activeSessions[k].page
                         /\ UNCHANGED << activeSessions, surface, engine, userBrowsers >>
                    ELSE /\ conn'[c].pc \in {"launch", "newContext"}
                         /\ conn'[c].page = 0
         /\ (conn[c].pc \in {"title", "blank"} /\ conn'[c].pc = "ready")
              => /\ \A k \in Keys : activeSessions[k].page # c
                 /\ activeSessions'[conn[c].sessionKey]
                      = [page |-> c, context |-> c, browser |-> conn[c].browser]
                 /\ surface'[c].url = "target"]_vars

\* C7 as amended: the same, the page being at the target url, or at the
\* blank page when the navigation to the target url failed.
C7_ReuseOrFresh ==
    [][\A c \in Conns :
         /\ \A u \in Users, s \in SessionIds :
              Connect(c, u, s) =>
                LET k == SessionKey(u, s)
                IN  IF HasSession(k) /\ surface[activeSessions[k].page].page
                    THEN /\ conn'[c].pc = "ready"
                         /\ conn'[c].page = activeSessions[k].page
                         /\ UNCHANGED << activeSessions, surface, engine, userBrowsers >>
                    ELSE /\ conn'[c].pc \in {"launch", "newContext"}
                         /\ conn'[c].page = 0
         /\ (conn[c].pc \in {"title", "blank"} /\ conn'[c].pc = "ready")
              => /\ \A k \in Keys : activeSessions[k].page # c
                 /\ activeSessions'[conn[c].sessionKey]
                      = [page |-> c, context |-> c, browser |-> conn[c].browser]
                 /\ surface'[c].url = IF conn[c].pc = "blank" THEN "blank" ELSE "target"]_vars

\* C7 witness: a connection is bound to the page another connection
\* created, which the registry still holds under its key.
C7_Witness ==
    \E c, d \in Conns :
      /\ c # d /\ conn[c].pc = "ready" /\ conn[c].page = d
      /\ HasSession(conn[c].sessionKey)
      /\ activeSessions[conn[c].sessionKey].page = d

\* C8: every open browser is the pool's entry of its user (none is left
\* outside the pool, so one user has one live engine), and a connection
\* that acquired an engine holds the pool's entry of its user.
C8_OneEngine ==
    /\ \A b \in Conns : engine[b].state = "open" => userBrowsers[engine[b].userId] = b
    /\ \A c \in Conns :
         (conn[c].pc \in {"newContext", "goto", "title", "blank"}
          /\ engine[conn[c].browser].state = "open")
           => userBrowsers[conn[c].userId] = conn[c].browser

\* C9: when a capture fails because its target is closed, the key of the
\* connection is absent from the registry afterwards and the context of the
\* page is closed.
C9_FatalRemoves ==
    [][\A c \in Conns : \A t \in Calls :
         CaptureFail(c, t, "closed")
           => /\ activeSessions'[conn[c].sessionKey] = NoSession
              /\ ~surface'[conn[c].page].context]_vars

\* C10: when a capture fails with a timeout or another error that is not a
\* target-closed error, nothing is sent, the stored hash and the registry are
\* as before, and isCapturing is false, so the next sendFrame call on the
\* open page captures.
C10_Transient ==
    [][\A c \in Conns : \A t \in Calls, e \in {"timeout", "other"} :
         CaptureFail(c, t, e)
           => /\ sent' = sent
              /\ sched'[c].lastScreenshotHash = sched[c].lastScreenshotHash
              /\ activeSessions' = activeSessions
              /\ ~sched'[c].isCapturing]_vars

\* C10 witness: a transient failure was logged and the session is still
\* registered, with no capture marked in progress.
C10_Witness ==
    \E c \in Conns :
      /\ errorLog[c] \in {"timeout", "other"}
      /\ UsedBy(c, conn[c].sessionKey)
      /\ ~sched[c].isCapturing

C12_LiveRate ==
    [][\A c \in Conns : \A ok \in BOOLEAN :
         (ScrollDone(c, ok) /\ timers'[c]["plain"] > timers[c]["plain"])
           => /\ now - lastScrollFrameTs[c] > MIN_SCROLL_FRAME_INTERVAL_MS
              /\ liveAt[c] # 0 => now - liveAt[c] > MIN_SCROLL_FRAME_INTERVAL_MS
              /\ liveAt'[c] = now]_vars

\* C12 witness: the last scroll of a connection came exactly
\* MIN_SCROLL_FRAME_INTERVAL_MS after a live frame and scheduled none.
C12_Witness ==
    \E c \in Conns :
      /\ liveAt[c] # 0
      /\ scrollAt[c] = liveAt[c] + MIN_SCROLL_FRAME_INTERVAL_MS

\* Some registered session references browser b.
Referenced(b) == \E k \in Keys : HasSession(k) /\ activeSessions[k].browser = b

\* C14: a sweep pass examines the pool's entries in order; it passes over
\* the entries whose browser a session references and closes the first one
\* whose browser no session references; when that close resolves or rejects,
\* the entry is removed from the pool and the pass goes on from there, to
\* the next such entry or to the end.
C14_SweepAll ==
    [][(SweepStart \/ SweepCloseDone \/ \E alive \in BOOLEAN : SweepCloseFail(alive))
         => LET from == IF sweep.pc = "idle" THEN 1 ELSE sweep.idx
                to == IF sweep'.pc = "idle" THEN Len(poolOrder') ELSE sweep'.idx - 1
            IN  /\ sweep.pc = "closing"
                     => /\ userBrowsers'[sweep.userId] = 0
                        /\ \A i \in 1 .. Len(poolOrder') : poolOrder'[i] # sweep.userId
                /\ SweepCloseDone => engine'[sweep.browser].state = "closed"
                /\ \A i \in from .. to : Referenced(userBrowsers'[poolOrder'[i]])
                /\ sweep'.pc = "closing"
                     => /\ sweep'.idx \in from .. Len(poolOrder')
                        /\ sweep'.userId = poolOrder'[sweep'.idx]
                        /\ sweep'.browser = userBrowsers'[sweep'.userId]
                        /\ ~Referenced(sweep'.browser)
                        /\ engine'[sweep'.browser].state # "open"]_vars

\* C14 witness: after a close of this pass was rejected, the pass is closing
\* the browser of another entry.
C14_Witness == sweep.pc = "closing" /\ sweep.failed

\* C15: isCapturing of a connection is true exactly while a page.screenshot
\* call of the connection is awaited; a deferred sendFrame call leaves it
\* true, to be cleared when the capture completes.
C15_FlagWhileCapturing ==
    \A c \in Conns : sched[c].isCapturing <=> InFlight(c) > 0

\* The sendFrame calls the pending timers of a connection stand for, forced
\* and not.
ForcedRequests(b) == b["nav"] + b["forced"]
PlainRequests(b) == b["event"] + b["event"] + b["nav"] + b["plain"] + b["replayForced"]

\* C16: a click or key whose page call resolved schedules two non-forced
\* requests and no forced one; a reload, back or forward that resolved
\* schedules one forced and one non-forced request; a command whose page
\* call rejected schedules nothing; a connection that becomes ready, on a new
\* or a reused session, starts with one forced and one non-forced request.
C16_Policy ==
    [][\A c \in Conns :
         /\ (HandlerDone(c, "event", TRUE) /\ surface[conn[c].page].page)
              => /\ ForcedRequests(timers'[c]) = ForcedRequests(timers[c])
                 /\ PlainRequests(timers'[c]) = PlainRequests(timers[c]) + 2
         /\ (HandlerDone(c, "nav", TRUE) /\ surface[conn[c].page].page)
              => /\ ForcedRequests(timers'[c]) = ForcedRequests(timers[c]) + 1
                 /\ PlainRequests(timers'[c]) = PlainRequests(timers[c]) + 1
         /\ \A kind \in MsgKinds : HandlerDone(c, kind, FALSE) => timers' = timers
         /\ (conn[c].pc # "ready" /\ conn'[c].pc = "ready")
              => /\ ForcedRequests(timers'[c]) = 1
                 /\ PlainRequests(timers'[c]) = 1]_vars

\* C16 witness: the two frames of a click or key are scheduled on a
\* connection that reused the session of another.
C16_Witness ==
    \E c \in Conns :
      /\ timers[c]["event"] > 0
      /\ timers[c]["nav"] > 0
      /\ conn[c].pc = "ready"
      /\ conn[c].page # c

\* C17: the removal timer of a closed connection leaves the registry and
\* the surfaces as they are when its key holds a session other than the one
\* the connection was bound to.
C17_OwnSessionOnly ==
    [][\A c \in Conns :
         (/\ GraceFire(c)
          /\ HasSession(conn[c].sessionKey)
          /\ activeSessions[conn[c].sessionKey].page # conn[c].page)
         => UNCHANGED << activeSessions, surface >>]_vars

\* C18: two connections bound to the same page presented the same userId
\* and the same sessionId.
C18_PairIdentity ==
    \A c, d \in Conns :
      (conn[c].pc = "ready" /\ conn[d].pc = "ready" /\ conn[c].page = conn[d].page)
        => (conn[c].userId = conn[d].userId /\ conn[c].sessionId = conn[d].sessionId)

\* C19: the browser of every registered session is the pool's entry of the
\* userId the session was created for, and it is not closed.
C19_SessionEngineInPool ==
    \A k \in Keys :
      HasSession(k) =>
        LET u == conn[activeSessions[k].page].userId
        IN  /\ userBrowsers[u] = activeSessions[k].browser
            /\ engine[activeSessions[k].browser].state # "closed"

\* C20: the open context and page a connection created are, once its set-up
\* is over, those of the session registered under its key.
C20_NoOrphan ==
    \A c \in Conns :
      (conn[c].pc = "ready" /\ conn[c].page = c /\ surface[c].context /\ surface[c].page)
        => /\ HasSession(conn[c].sessionKey)
           /\ activeSessions[conn[c].sessionKey].context = c

=============================================================================
